---- MODULE Spec2Model ----
(***************************************************************************)
(* ReceiptManager (packages/indexer-service/src/receipt-manager.ts).       *)
(*                                                                         *)
(* The class is a set of async methods over one shared record, cachedState.*)
(* JavaScript runs the code between two awaits without interruption, so    *)
(* every action below is one such segment of one call; the calls in flight *)
(* are the slots of Procs.  The wallet (@statechannels/server-wallet) is   *)
(* the environment: a wallet action answers one pending call, in any       *)
(* order, from the wallet's own authoritative channel results.             *)
(***************************************************************************)
EXTENDS Integers, Sequences, FiniteSets, TLC

----------------------------------------------------------------------------
(* Bounds *)

\* highest turn number the wallet signs
MaxTurn == 4
\* largest outbox pushMessage and updateChannel answer with
MaxOutbox == 2
\* largest outbox joinChannel answers with
MaxJoinOutbox == 3

\* calls in flight at once
Procs == {1, 2}

\* turn numbers of the two states the join branch sends (source comment)
PreFundTurn == 0
PostFundTurn == 3

----------------------------------------------------------------------------
(* Values *)

\* channel constants of the first state of a message, and the id they give
ChannelConstantsSet == {[chainId |-> 1, channelNonce |-> 1]}

calculateChannelId(channelConstants) ==
    channelConstants.chainId * 100 + channelConstants.channelNonce

Channels == {calculateChannelId(cc) : cc \in ChannelConstantsSet}

\* !this.cachedState[channelId], !channelResult : the absent channel result
NoResult ==
    [channelId |-> 0, status |-> "undefined", turnNum |-> 0,
     appData |-> 0, allocations |-> <<>>]

\* the allocations a proposed channel may carry
AllocationChoices ==
    { <<[token |-> "GRT", allocationItems |-> <<[amount |-> 0], [amount |-> 0]>>]>>,
      <<[token |-> "GRT", allocationItems |-> <<[amount |-> 1], [amount |-> 0]>>]>>,
      <<[token |-> "GRT", allocationItems |-> <<[amount |-> 0], [amount |-> 0]>>],
        [token |-> "DAI", allocationItems |-> <<[amount |-> 2]>>]>> }

NoMessage == [sender |-> "", recipient |-> "", signedStates |-> <<>>]

\* an outbox item of the wallet: params is the wire message to the payer
OutboxItem(channelId, turnNum, tag) ==
    [params |-> [sender |-> "indexer", recipient |-> "payer",
                 signedStates |-> <<[channelId |-> channelId,
                                     turnNum |-> turnNum, by |-> tag]>>]]

NoResponse == [ok |-> TRUE, channelResult |-> NoResult, outbox |-> <<>>]

NoAppData == [from |-> 0, toStateType |-> ""]

NoRequest == [channelId |-> 0, appData |-> NoAppData, allocations |-> <<>>,
              token |-> "", amount |-> 0]

Pending == [kind |-> "pending", message |-> NoMessage, error |-> "", channelId |-> 0]
Returned(m) == [kind |-> "message", message |-> m, error |-> "", channelId |-> 0]
ReturnedNothing == [kind |-> "undefined", message |-> NoMessage, error |-> "", channelId |-> 0]
ReturnedId(c) == [kind |-> "channelId", message |-> NoMessage, error |-> "", channelId |-> c]
Thrown(e) == [kind |-> "error", message |-> NoMessage, error |-> e, channelId |-> 0]

----------------------------------------------------------------------------
(* Pure helpers *)

BNadd(a, b) == a + b

RECURSIVE Reduce(_, _)
\* amounts.reduce(BN.add, acc)
Reduce(amounts, acc) ==
    IF amounts = <<>> THEN acc
    ELSE Reduce(Tail(amounts), BNadd(acc, Head(amounts)))

\* the total of the first allocation only
totalInChannel(channelResult) ==
    Reduce([i \in 1..Len(channelResult.allocations[1].allocationItems) |->
               channelResult.allocations[1].allocationItems[i].amount], 0)

\* the shortcut with the comparison of the total inverted
ZeroFundShortcut_Inverted(joinOutbox, channelResult) ==
    Len(joinOutbox) = 2 /\ totalInChannel(channelResult) # 0

\* outbox.length === 2 && BN.eq(totalInChannel, 0)
ZeroFundShortcut(joinOutbox, channelResult) ==
    Len(joinOutbox) = 2 /\ totalInChannel(channelResult) = 0

\* the join outbox sizes the code accepts
\* the length check with only its upper limit
JoinOutboxOk_AtMostTwo(joinOutbox) == Len(joinOutbox) <= 2

JoinOutboxOk(joinOutbox) == Len(joinOutbox) = 1 \/ Len(joinOutbox) = 2

\* the join test without its status half
IsJoinBranch_AnyStatus(channelResult, outbox) == Len(outbox) = 0

IsJoinBranch(channelResult, outbox) ==
    channelResult.status = "proposed" /\ Len(outbox) = 0

\* the acknowledgement test without the outbox length
IsAckBranch_AnyOutbox(channelResult, outbox) ==
    channelResult.status = "running"

IsAckBranch(channelResult, outbox) ==
    channelResult.status = "running" /\ Len(outbox) = 0

IsCloseBranch(channelResult, outbox) ==
    channelResult.status = "closed" /\ Len(outbox) = 1

\* the reply with its two signed states in the other order
JoinReply_Swapped(outboundJoinedChannelState, postFund2State) ==
    [sender |-> outboundJoinedChannelState.sender,
     recipient |-> outboundJoinedChannelState.recipient,
     signedStates |-> << postFund2State.signedStates[1],
                         outboundJoinedChannelState.signedStates[1] >>]

\* the message the join branch returns
JoinReply(outboundJoinedChannelState, postFund2State) ==
    [sender |-> outboundJoinedChannelState.sender,
     recipient |-> outboundJoinedChannelState.recipient,
     signedStates |-> << outboundJoinedChannelState.signedStates[1],
                         postFund2State.signedStates[1] >>]

\* computeNextState of @statechannels/graph.  A channel result's appData is
\* opaque here and stands for "the app data of the state at that turn", so it
\* is written as that turn number; the next app data is the target state type
\* reached from the app data it was given, over the allocations it was given
computeNextState(appData, allocations, toStateType) ==
    [appData |-> [from |-> appData, toStateType |-> toStateType],
     allocation |-> allocations]

\* getChannelResult without its check
Resolvable_Unchecked(channelResult) == TRUE

\* the channel result getChannelResult accepts
Resolvable(channelResult) == channelResult # NoResult

----------------------------------------------------------------------------
VARIABLES
    wallet,         \* the wallet's channel result per channel id
    cachedState,    \* this.cachedState
    call            \* the calls in flight: per slot, the call's frame

vars == <<wallet, cachedState, call>>

(* A frame: pc            where the call stands (the await it is at)
            op            the method it runs
            channelId     the channel id it was called with, or its message is for
            stateType     nextState's stateType
            channelResult the local channelResult
            outbox        the outbox pushMessage answered with
            joinOutbox    the outbox joinChannel answered with
            request       the arguments of the wallet call in flight
            resp          the wallet's answer to it
            ret           what the call returned or threw
            calls         the wallet operations the call invoked, in order *)
Idle ==
    [pc |-> "idle", op |-> "none", channelId |-> 0, stateType |-> "",
     channelResult |-> NoResult, outbox |-> <<>>, joinOutbox |-> <<>>,
     request |-> NoRequest, resp |-> NoResponse, ret |-> Pending, calls |-> <<>>]

Init ==
    /\ wallet = [c \in Channels |-> NoResult]
    /\ cachedState = [c \in Channels |-> NoResult]
    /\ call = [p \in Procs |-> Idle]

----------------------------------------------------------------------------
(* Shared steps *)

\* this.cachedState[channelId] = channelResult
\* the write left out
SetCache_Skipped(cache, channelId, result) == cache

\* the write made to every entry
SetCache_AllKeys(cache, channelId, result) == [c \in DOMAIN cache |-> result]

SetCache(cache, channelId, result) == [cache EXCEPT ![channelId] = result]

Free(p) == call[p].pc \in {"idle", "done"}

\* a new call takes the lowest free slot
CanStart(p) == Free(p) /\ \A q \in Procs : q < p => ~Free(q)

\* the frame of a call that ended, returning or throwing r: its locals are gone
Finished(f, r) ==
    [Idle EXCEPT !.pc = "done", !.op = f.op, !.channelId = f.channelId,
                 !.ret = r, !.calls = f.calls]

\* the frame of a call that awaits wallet operation w with arguments r
Awaiting(f, w, r) ==
    [f EXCEPT !.pc = w, !.request = r, !.resp = NoResponse,
              !.calls = Append(@, w)]

\* the wallet answers the call in flight with a
Answer(p, next, a) ==
    /\ call' = [call EXCEPT ![p].pc = next, ![p].resp = a]
    /\ UNCHANGED cachedState

\* getChannelState asking the wallet whatever the cache holds
GetChannelStateCall_AlwaysFetch(f) ==
    Awaiting(f, "getState", [NoRequest EXCEPT !.channelId = f.channelId])

\* getChannelState up to its first await: a cache hit returns the entry, a
\* miss asks the wallet
GetChannelStateCall(f) ==
    IF cachedState[f.channelId] # NoResult
    THEN [f EXCEPT !.pc = "resolved", !.channelResult = cachedState[f.channelId]]
    ELSE Awaiting(f, "getState", [NoRequest EXCEPT !.channelId = f.channelId])

----------------------------------------------------------------------------
(* The wallet *)

NextStatus(status) ==
    CASE status = "proposed" -> {"proposed"}
      [] status = "running"  -> {"running", "closed"}
      [] OTHER               -> {"closed"}

\* the channel result once the state of the given turn is signed
Signed(channelResult, status, turnNum) ==
    [channelResult EXCEPT !.status = status, !.turnNum = turnNum,
                          !.appData = turnNum]

\* the payer signs a next turn only in a running channel
NextTurns(channelResult) ==
    IF channelResult.status = "running"
    THEN {channelResult.turnNum, channelResult.turnNum + 1}
    ELSE {channelResult.turnNum}

Items(channelId, turnNum, tag, n) ==
    [i \in 1..n |-> OutboxItem(channelId, turnNum, <<tag, i>>)]

\* joinChannel's outbox: the turn-0 countersignature, then the turn-3 state
JoinItems(channelId, n) ==
    [i \in 1..n |->
        OutboxItem(channelId, IF i = 1 THEN PreFundTurn ELSE PostFundTurn, <<"join", i>>)]

Max(a, b) == IF a >= b THEN a ELSE b

\* wallet.pushMessage(message.data): the payer's message has no effect, or
\* proposes the channel, or moves it on
WalletPushMessage(p) ==
    /\ call[p].pc = "pushMessage"
    /\ LET c == call[p].request.channelId IN
       \/ /\ Answer(p, "afterPush", NoResponse)
          /\ UNCHANGED wallet
       \/ /\ wallet[c] = NoResult
          /\ \E al \in AllocationChoices, n \in 0..MaxOutbox :
                LET new == [channelId |-> c, status |-> "proposed",
                            turnNum |-> PreFundTurn, appData |-> PreFundTurn,
                            allocations |-> al] IN
                /\ wallet' = [wallet EXCEPT ![c] = new]
                /\ Answer(p, "afterPush",
                          [ok |-> TRUE, channelResult |-> new,
                           outbox |-> Items(c, new.turnNum, "push", n)])
       \/ /\ wallet[c] # NoResult
          /\ \E s \in NextStatus(wallet[c].status),
                t \in NextTurns(wallet[c]),
                n \in 0..MaxOutbox :
                LET new == Signed(wallet[c], s, t) IN
                /\ t <= MaxTurn
                /\ wallet' = [wallet EXCEPT ![c] = new]
                /\ Answer(p, "afterPush",
                          [ok |-> TRUE, channelResult |-> new,
                           outbox |-> Items(c, t, "push", n)])

\* wallet.joinChannel(channelResult): countersigns turn 0, and turn 3 too when
\* it answers with a second item, and the channel advances to the running
\* stage; a channel already joined is refused
WalletJoinChannel(p) ==
    /\ call[p].pc = "joinChannel"
    /\ LET c == call[p].request.channelId IN
       IF wallet[c].status = "proposed"
       THEN \E n \in 0..MaxJoinOutbox :
               /\ wallet' = [wallet EXCEPT ![c] = Signed(@, "running",
                                   IF n >= 2 THEN PostFundTurn ELSE @.turnNum)]
               /\ Answer(p, "afterJoin",
                         [ok |-> TRUE, channelResult |-> NoResult,
                          outbox |-> JoinItems(c, n)])
       ELSE /\ Answer(p, "afterJoin", [NoResponse EXCEPT !.ok = FALSE])
            /\ UNCHANGED wallet

\* wallet.updateChannelFunding({channelId, token, amount}): signs the turn-3
\* state, or fails
WalletUpdateChannelFunding(p) ==
    /\ call[p].pc = "updateChannelFunding"
    /\ LET c == call[p].request.channelId IN
       \/ /\ Answer(p, "afterFunding", [NoResponse EXCEPT !.ok = FALSE])
          /\ UNCHANGED wallet
       \/ \E n \in 0..1 :
             /\ wallet' = [wallet EXCEPT ![c] =
                               Signed(@, @.status, Max(@.turnNum, PostFundTurn))]
             /\ Answer(p, "afterFunding",
                       [ok |-> TRUE, channelResult |-> NoResult,
                        outbox |-> Items(c, PostFundTurn, "fund", n)])

\* wallet.updateChannel({channelId, appData, allocations}): signs the next
\* turn of a running channel with the given app data and allocations and
\* answers with at least one outbox item, or fails
WalletUpdateChannel(p) ==
    /\ call[p].pc = "updateChannel"
    /\ LET c == call[p].request.channelId IN
       \/ /\ Answer(p, "afterUpdate", [NoResponse EXCEPT !.ok = FALSE])
          /\ UNCHANGED wallet
       \/ /\ wallet[c].status = "running"
          /\ wallet[c].turnNum < MaxTurn
          /\ \E n \in 1..MaxOutbox :
                LET new == [Signed(wallet[c], wallet[c].status, wallet[c].turnNum + 1)
                               EXCEPT !.allocations = call[p].request.allocations] IN
                /\ wallet' = [wallet EXCEPT ![c] = new]
                /\ Answer(p, "afterUpdate",
                          [ok |-> TRUE, channelResult |-> new,
                           outbox |-> Items(c, new.turnNum, "update", n)])

\* wallet.getState({channelId})
WalletGetState(p) ==
    /\ call[p].pc = "getState"
    /\ Answer(p, "afterGetState",
              [NoResponse EXCEPT !.channelResult = wallet[call[p].request.channelId]])
    /\ UNCHANGED wallet


----------------------------------------------------------------------------
(* inputStateChannelMessage *)

\* the call, up to await this.wallet.pushMessage(message.data)
InputStateChannelMessage(p, channelId) ==
    /\ CanStart(p)
    /\ call' = [call EXCEPT ![p] =
                   Awaiting([Idle EXCEPT !.op = "inputStateChannelMessage",
                                         !.channelId = channelId],
                            "pushMessage",
                            [NoRequest EXCEPT !.channelId = channelId])]
    /\ UNCHANGED <<wallet, cachedState>>

\* the closing item rebuilt from its signed states, without its addressing
ClosedReply_Rebuilt(outbox) ==
    [NoMessage EXCEPT !.signedStates = outbox[1].params.signedStates]

\* const [{ params: outboundClosedChannelState }] = outbox
ClosedReply(outbox) == outbox[1].params

\* the branch taken on (status, outbox length), given the frame f that holds
\* pushMessage's channel result and outbox
Branch(f) ==
    IF IsJoinBranch(f.channelResult, f.outbox)
    THEN Awaiting(f, "joinChannel",
                  [NoRequest EXCEPT !.channelId = f.channelResult.channelId])
    ELSE IF IsAckBranch(f.channelResult, f.outbox)
    THEN Finished(f, ReturnedNothing)
    ELSE IF IsCloseBranch(f.channelResult, f.outbox)
    THEN Finished(f, Returned(ClosedReply(f.outbox)))
    ELSE Finished(f, Thrown("UnrecognizedProtocolTransition"))

\* the test left out
DidNothing_Unchecked(channelResult) == FALSE

\* if (!channelResult) throw Error('Received a new state that did nothing')
DidNothing(channelResult) == channelResult = NoResult

\* from pushMessage's answer to the next await or the end of the call
InputAfterPush(p) ==
    /\ call[p].pc = "afterPush"
    /\ LET f == call[p]
           r == f.resp.channelResult IN
       IF DidNothing(r)
       THEN /\ call' = [call EXCEPT ![p] = Finished(f, Thrown("NoChannelUpdate"))]
            /\ UNCHANGED cachedState
       ELSE /\ cachedState' = SetCache(cachedState, r.channelId, r)
            /\ call' = [call EXCEPT ![p] =
                           Branch([f EXCEPT !.channelResult = r,
                                            !.outbox = f.resp.outbox])]
    /\ UNCHANGED wallet

\* from joinChannel's answer: the size check, the funding total, and either
\* the zero-fund reply or the call of updateChannelFunding
AfterJoin(f) ==
    IF ~f.resp.ok
    THEN Finished(f, Thrown("WalletError"))
    ELSE IF ~JoinOutboxOk(f.resp.outbox)
    THEN Finished(f, Thrown("MalformedJoinOutbox"))
    ELSE IF ZeroFundShortcut(f.resp.outbox, f.channelResult)
    THEN Finished(f, Returned(JoinReply(f.resp.outbox[1].params,
                                        f.resp.outbox[2].params)))
    ELSE Awaiting([f EXCEPT !.joinOutbox = f.resp.outbox],
                  "updateChannelFunding",
                  [NoRequest EXCEPT
                      !.channelId = f.channelResult.channelId,
                      !.token = f.channelResult.allocations[1].token,
                      !.amount = totalInChannel(f.channelResult)])

InputAfterJoin(p) ==
    /\ call[p].pc = "afterJoin"
    /\ call' = [call EXCEPT ![p] = AfterJoin(call[p])]
    /\ UNCHANGED <<wallet, cachedState>>

\* from updateChannelFunding's answer to the reply
AfterFunding(f) ==
    IF ~f.resp.ok
    THEN Finished(f, Thrown("WalletError"))
    ELSE IF Len(f.resp.outbox) = 0
    THEN Finished(f, Thrown("TypeError"))
    ELSE IF f.resp.outbox[1].params = NoMessage
    THEN Finished(f, Thrown("UndefinedPostFundState"))
    ELSE Finished(f, Returned(JoinReply(f.joinOutbox[1].params,
                                        f.resp.outbox[1].params)))

InputAfterFunding(p) ==
    /\ call[p].pc = "afterFunding"
    /\ call' = [call EXCEPT ![p] = AfterFunding(call[p])]
    /\ UNCHANGED <<wallet, cachedState>>

----------------------------------------------------------------------------
(* provideAttestation, declineQuery, getExistingChannelId *)

\* nextState up to the first await inside getChannelState
NextStateCall(p, channelId, type) ==
    /\ CanStart(p)
    /\ call' = [call EXCEPT ![p] =
                   GetChannelStateCall([Idle EXCEPT !.op = "nextState",
                                                    !.channelId = channelId,
                                                    !.stateType = type])]
    /\ UNCHANGED <<wallet, cachedState>>

ProvideAttestation(p, channelId) ==
    NextStateCall(p, channelId, "AttestationProvided")

DeclineQuery(p, channelId) ==
    NextStateCall(p, channelId, "QueryDeclined")

GetExistingChannelId(p, channelConstants) ==
    /\ CanStart(p)
    /\ call' = [call EXCEPT ![p] =
                   GetChannelStateCall(
                       [Idle EXCEPT !.op = "getExistingChannelId",
                                    !.channelId = calculateChannelId(channelConstants)])]
    /\ UNCHANGED <<wallet, cachedState>>

\* getChannelState after await this.wallet.getState: the answer is cached and
\* the cached entry returned
GetChannelStateResume(p) ==
    /\ call[p].pc = "afterGetState"
    /\ cachedState' = SetCache(cachedState, call[p].channelId,
                               call[p].resp.channelResult)
    /\ call' = [call EXCEPT ![p].pc = "resolved",
                            ![p].channelResult = cachedState'[call[p].channelId],
                            ![p].request = NoRequest,
                            ![p].resp = NoResponse]
    /\ UNCHANGED wallet

\* nextState after await this.getChannelResult(channelId), up to
\* await this.wallet.updateChannel
AfterResolve(f) ==
    IF ~Resolvable(f.channelResult)
    THEN Finished(f, Thrown("ChannelNotFound"))
    ELSE LET nextState == computeNextState(f.channelResult.appData,
                                           f.channelResult.allocations,
                                           f.stateType) IN
         Awaiting(f, "updateChannel",
                  [NoRequest EXCEPT !.channelId = f.channelId,
                                    !.appData = nextState.appData,
                                    !.allocations = nextState.allocation])

NextStateAfterResolve(p) ==
    /\ call[p].pc = "resolved"
    /\ call[p].op = "nextState"
    /\ call' = [call EXCEPT ![p] = AfterResolve(call[p])]
    /\ UNCHANGED <<wallet, cachedState>>

\* the cache left as it was after updateChannel
CacheAfterUpdate_Skipped(cache, f) == cache

\* this.cachedState[channelId] = channelResult, with updateChannel's result
CacheAfterUpdate(cache, f) == SetCache(cache, f.channelId, f.resp.channelResult)

\* the rejection swallowed
Rejected_Swallowed(resp) == FALSE

\* await this.wallet.updateChannel(...) rejects
Rejected(resp) == ~resp.ok

\* nextState after updateChannel's answer
NextStateAfterUpdate(p) ==
    /\ call[p].pc = "afterUpdate"
    /\ LET f == call[p] IN
       IF Rejected(f.resp)
       THEN /\ call' = [call EXCEPT ![p] = Finished(f, Thrown("WalletError"))]
            /\ UNCHANGED cachedState
       ELSE IF Len(f.resp.outbox) = 0
       THEN /\ call' = [call EXCEPT ![p] = Finished(f, Thrown("TypeError"))]
            /\ UNCHANGED cachedState
       ELSE /\ cachedState' = CacheAfterUpdate(cachedState, f)
            /\ call' = [call EXCEPT ![p] =
                           Finished(f, Returned(f.resp.outbox[1].params))]
    /\ UNCHANGED wallet

\* getExistingChannelId after await this.getChannelResult(...)
ExistingChannelId(f) ==
    IF ~Resolvable(f.channelResult)
    THEN Finished(f, Thrown("ChannelNotFound"))
    ELSE Finished(f, ReturnedId(f.channelId))

GetExistingAfterResolve(p) ==
    /\ call[p].pc = "resolved"
    /\ call[p].op = "getExistingChannelId"
    /\ call' = [call EXCEPT ![p] = ExistingChannelId(call[p])]
    /\ UNCHANGED <<wallet, cachedState>>

----------------------------------------------------------------------------
Next ==
    \/ \E p \in Procs, c \in Channels : InputStateChannelMessage(p, c)
    \/ \E p \in Procs, c \in Channels : ProvideAttestation(p, c)
    \/ \E p \in Procs, c \in Channels : DeclineQuery(p, c)
    \/ \E p \in Procs, cc \in ChannelConstantsSet : GetExistingChannelId(p, cc)
    \/ \E p \in Procs : InputAfterPush(p)
    \/ \E p \in Procs : InputAfterJoin(p)
    \/ \E p \in Procs : InputAfterFunding(p)
    \/ \E p \in Procs : GetChannelStateResume(p)
    \/ \E p \in Procs : NextStateAfterResolve(p)
    \/ \E p \in Procs : NextStateAfterUpdate(p)
    \/ \E p \in Procs : GetExistingAfterResolve(p)
    \/ \E p \in Procs : WalletPushMessage(p)
    \/ \E p \in Procs : WalletJoinChannel(p)
    \/ \E p \in Procs : WalletUpdateChannelFunding(p)
    \/ \E p \in Procs : WalletUpdateChannel(p)
    \/ \E p \in Procs : WalletGetState(p)

Spec == Init /\ [][Next]_vars

----------------------------------------------------------------------------
(* The receipt manager serving two channels, each through its own slot: the
   calls on one channel come one after the other, those on distinct channels
   run in parallel (by CanStart, a call on the second channel starts while one
   on the first is in flight). *)

TwoChannelConstants ==
    {[chainId |-> 1, channelNonce |-> 1], [chainId |-> 1, channelNonce |-> 2]}

TwoChannels == {calculateChannelId(cc) : cc \in TwoChannelConstants}

InitTwoChannels ==
    /\ wallet = [c \in TwoChannels |-> NoResult]
    /\ cachedState = [c \in TwoChannels |-> NoResult]
    /\ call = [p \in Procs |-> Idle]

\* slot p carries the calls on the channel of nonce p
Serves(p, channelId) ==
    channelId = calculateChannelId([chainId |-> 1, channelNonce |-> p])

NextTwoChannels ==
    \/ \E p \in Procs, c \in TwoChannels :
          Serves(p, c) /\ InputStateChannelMessage(p, c)
    \/ \E p \in Procs, c \in TwoChannels :
          Serves(p, c) /\ ProvideAttestation(p, c)
    \/ \E p \in Procs, c \in TwoChannels :
          Serves(p, c) /\ DeclineQuery(p, c)
    \/ \E p \in Procs, cc \in TwoChannelConstants :
          Serves(p, calculateChannelId(cc)) /\ GetExistingChannelId(p, cc)
    \/ \E p \in Procs : InputAfterPush(p)
    \/ \E p \in Procs : InputAfterJoin(p)
    \/ \E p \in Procs : InputAfterFunding(p)
    \/ \E p \in Procs : GetChannelStateResume(p)
    \/ \E p \in Procs : NextStateAfterResolve(p)
    \/ \E p \in Procs : NextStateAfterUpdate(p)
    \/ \E p \in Procs : GetExistingAfterResolve(p)
    \/ \E p \in Procs : WalletPushMessage(p)
    \/ \E p \in Procs : WalletJoinChannel(p)
    \/ \E p \in Procs : WalletUpdateChannelFunding(p)
    \/ \E p \in Procs : WalletUpdateChannel(p)
    \/ \E p \in Procs : WalletGetState(p)

SpecTwoChannels == InitTwoChannels /\ [][NextTwoChannels]_vars

----------------------------------------------------------------------------
(* Observations used by the properties *)

InFlight(p) == call[p].pc \notin {"idle", "done"}

\* call p ends in this step
Ends(p) == call[p].pc # "done" /\ call'[p].pc = "done"

\* call p takes a step
Steps(p) == call'[p] # call[p]

Count(seq, x) == Cardinality({i \in 1..Len(seq) : seq[i] = x})

HandledCombinations == {<<"proposed", 0>>, <<"running", 0>>, <<"closed", 1>>}

----------------------------------------------------------------------------
(* C1 *)

\* C1: when a settlement call has invoked wallet.updateChannel while another
\* settlement or inbound-message call is in flight on the same channel, the
\* app data it passes was computed from the wallet's current channel result
\* (the two calls' resolve / mutate wallet / write cache sequences did not
\* interleave)
C1_UpdatesSerialized ==
    \A p \in Procs, q \in Procs :
        ( /\ p # q
          /\ call[p].op = "nextState"
          /\ call[p].pc = "updateChannel"
          /\ InFlight(q)
          /\ call[q].op \in {"nextState", "inputStateChannelMessage"}
          /\ call[q].channelId = call[p].channelId )
        => call[p].request.appData.from = wallet[call[p].channelId].turnNum

----------------------------------------------------------------------------
(* C2 *)

\* C2: a provideAttestation or declineQuery call whose resolved channel result
\* is not running never invokes wallet.updateChannel
C2_NotRunningNeverUpdates ==
    \A p \in Procs :
        (call[p].op = "nextState" /\ call[p].pc = "updateChannel")
        => call[p].channelResult.status = "running"

----------------------------------------------------------------------------
(* C3 *)

\* C3: when pushMessage answered with a channel result, the step after it
\* takes a branch (joins, returns nothing, or forwards the closing item) only
\* on (proposed, 0), (running, 0), (closed, 1); on every other combination the
\* call ends there with UnrecognizedProtocolTransition, returns no message and
\* has invoked nothing but pushMessage
C3_OnlyThreeBranches ==
    [][\A p \in Procs :
          ( /\ call[p].pc = "afterPush"
            /\ call[p].resp.channelResult # NoResult
            /\ Steps(p) )
          => LET combination == <<call[p].resp.channelResult.status,
                                   Len(call[p].resp.outbox)>> IN
             IF combination \in HandledCombinations
             THEN call'[p].ret.kind # "error"
             ELSE /\ call'[p].pc = "done"
                  /\ call'[p].ret = Thrown("UnrecognizedProtocolTransition")
                  /\ call'[p].ret.message = NoMessage
                  /\ call'[p].calls = <<"pushMessage">>]_vars

\* a call that ended with UnrecognizedProtocolTransition after pushMessage
\* changed the wallet's channel
C3_Witness ==
    \E p \in Procs :
        /\ call[p].pc = "done"
        /\ call[p].op = "inputStateChannelMessage"
        /\ call[p].ret.error = "UnrecognizedProtocolTransition"
        /\ wallet[call[p].channelId].status = "running"

----------------------------------------------------------------------------
(* C4 *)

\* C4: when no call is in flight (and none has ended with an error), a cache
\* entry equals the wallet's channel result for that channel (same status,
\* same turn number)
C4_CacheIsCurrent ==
    (\A p \in Procs : ~InFlight(p) /\ call[p].ret.kind # "error")
    => \A c \in Channels :
          cachedState[c] # NoResult
          => /\ cachedState[c].status = wallet[c].status
             /\ cachedState[c].turnNum = wallet[c].turnNum

----------------------------------------------------------------------------
(* C5 *)

\* C5 as stated: in the join branch updateChannelFunding is never invoked for
\* a channel whose single allocation sums to zero, whatever the size of the
\* join outbox
C5_ZeroTotalNeverFunds ==
    \A p \in Procs :
        ( /\ call[p].pc \in {"updateChannelFunding", "afterFunding"}
          /\ Len(call[p].channelResult.allocations) = 1 )
        => totalInChannel(call[p].channelResult) # 0

\* C5 as amended: for a channel whose single allocation sums to zero, a join
\* outbox of two items ends the call with the second item as post-fund state
\* and without updateChannelFunding; a join outbox of one item makes the call
\* invoke updateChannelFunding with amount 0
C5_ZeroFundShortcut ==
    [][\A p \in Procs :
          ( /\ call[p].pc = "afterJoin"
            /\ call[p].resp.ok
            /\ Len(call[p].channelResult.allocations) = 1
            /\ totalInChannel(call[p].channelResult) = 0
            /\ Steps(p) )
          => /\ Len(call[p].resp.outbox) = 2
                => /\ call'[p].pc = "done"
                   /\ call'[p].calls = <<"pushMessage", "joinChannel">>
                   /\ call'[p].ret.kind = "message"
                   /\ call'[p].ret.message.signedStates[2]
                        = call[p].resp.outbox[2].params.signedStates[1]
             /\ Len(call[p].resp.outbox) = 1
                => /\ call'[p].pc = "updateChannelFunding"
                   /\ call'[p].request.amount = 0]_vars

\* a join of a zero-total channel that replied without updateChannelFunding
C5_Witness ==
    \E p \in Procs :
        /\ call[p].pc = "done"
        /\ call[p].calls = <<"pushMessage", "joinChannel">>
        /\ call[p].ret.kind = "message"
        /\ Len(wallet[call[p].channelId].allocations) = 1
        /\ totalInChannel(wallet[call[p].channelId]) = 0

----------------------------------------------------------------------------
(* C6 *)

\* C6: a message returned by the join branch carries exactly two signed
\* states, first the turn-0 state of the first join outbox item, then the
\* turn-3 post-fund state, which is the second join outbox item when
\* updateChannelFunding was not invoked and the first item of its outbox when
\* it was; sender and recipient are those of the first join outbox item
C6_JoinReplyShape ==
    \A p \in Procs :
        ( /\ call[p].pc = "done"
          /\ call[p].op = "inputStateChannelMessage"
          /\ Count(call[p].calls, "joinChannel") = 1
          /\ call[p].ret.kind = "message" )
        => LET m == call[p].ret.message
               c == call[p].channelId IN
           /\ Len(m.signedStates) = 2
           /\ m.signedStates[1] = JoinItems(c, 1)[1].params.signedStates[1]
           /\ m.signedStates[1].turnNum = 0
           /\ m.signedStates[2].turnNum = 3
           /\ m.signedStates[2].by =
                 IF Count(call[p].calls, "updateChannelFunding") = 0
                 THEN <<"join", 2>> ELSE <<"fund", 1>>
           /\ m.sender = JoinItems(c, 1)[1].params.sender
           /\ m.recipient = JoinItems(c, 1)[1].params.recipient

\* a join that replied after an explicit funding call
C6_Witness ==
    \E p \in Procs :
        /\ call[p].pc = "done"
        /\ call[p].calls = <<"pushMessage", "joinChannel", "updateChannelFunding">>
        /\ call[p].ret.kind = "message"
        /\ Len(call[p].ret.message.signedStates) = 2

----------------------------------------------------------------------------
(* C7 *)

\* C7: getExistingChannelId never ends with an error: it returns the channel
\* id, or undefined when the channel is in neither the cache nor the wallet
C7_NotFoundIsNotAnError ==
    \A p \in Procs :
        (call[p].pc = "done" /\ call[p].op = "getExistingChannelId")
        => call[p].ret.kind \in {"channelId", "undefined"}

----------------------------------------------------------------------------
(* C8 *)

\* C8: a provideAttestation or declineQuery call that returns a message has
\* invoked updateChannel exactly once, returns the first outbox item of that
\* update, leaves the update's channel result in the cache, and that result's
\* turn number is greater than the one the call resolved at its start
C8_OneStep ==
    [][\A p \in Procs :
          ( /\ call[p].op = "nextState"
            /\ Ends(p)
            /\ call'[p].ret.kind = "message" )
          => /\ call[p].pc = "afterUpdate"
             /\ Count(call'[p].calls, "updateChannel") = 1
             /\ call'[p].ret.message = call[p].resp.outbox[1].params
             /\ cachedState'[call[p].channelId] = call[p].resp.channelResult
             /\ call[p].resp.channelResult.turnNum > call[p].channelResult.turnNum
             /\ call[p].resp.channelResult.turnNum
                   = call'[p].ret.message.signedStates[1].turnNum]_vars

\* a settlement call on a running channel returned a message and the cache
\* holds the turn it signed
C8_Witness ==
    \E p \in Procs :
        /\ call[p].pc = "done"
        /\ call[p].op = "nextState"
        /\ call[p].ret.kind = "message"
        /\ cachedState[call[p].channelId].status = "running"
        /\ cachedState[call[p].channelId].turnNum
              = call[p].ret.message.signedStates[1].turnNum

----------------------------------------------------------------------------
(* C9 *)

\* C9: a provideAttestation or declineQuery call that missed the cache and for
\* which the wallet knows no channel writes no resolvable entry to the cache,
\* ends with ChannelNotFound and invokes nothing but getState
C9_ChannelNotFound ==
    [][\A p \in Procs :
          (call[p].op = "nextState" /\ Steps(p))
          => /\ ( /\ call[p].pc = "afterGetState"
                  /\ call[p].resp.channelResult = NoResult )
                => /\ cachedState'[call[p].channelId] = NoResult
                   /\ call'[p].pc = "resolved"
                   /\ call'[p].channelResult = NoResult
             /\ ( /\ call[p].pc = "resolved"
                  /\ call[p].channelResult = NoResult )
                => /\ call'[p].pc = "done"
                   /\ call'[p].ret = Thrown("ChannelNotFound")
                   /\ call'[p].calls = <<"getState">>]_vars

\* a settlement call on an unknown channel ended with ChannelNotFound
C9_Witness ==
    \E p \in Procs :
        /\ call[p].pc = "done"
        /\ call[p].op = "nextState"
        /\ call[p].ret.error = "ChannelNotFound"
        /\ call[p].calls = <<"getState">>
        /\ cachedState[call[p].channelId] = NoResult
        /\ wallet[call[p].channelId] = NoResult

----------------------------------------------------------------------------
(* C10 *)

\* C10: in the join branch a channel result with more than one allocation
\* never leads to a call of updateChannelFunding
C10_MultiAllocationRejected ==
    \A p \in Procs :
        Len(call[p].channelResult.allocations) > 1
        => call[p].pc \notin {"updateChannelFunding", "afterFunding"}

----------------------------------------------------------------------------
(* C11 *)

\* a call starts in slot p in this step
Starts(p) == call[p].pc \in {"idle", "done"} /\ call'[p].pc \notin {"idle", "done"}

\* C11: when pushMessage answered with a closed channel and exactly one outbox
\* item, the call ends there, returns that item's message unchanged and has
\* invoked no wallet operation but pushMessage
C11_ClosureForwards ==
    [][\A p \in Procs :
          ( /\ call[p].pc = "afterPush"
            /\ call[p].resp.channelResult.status = "closed"
            /\ Len(call[p].resp.outbox) = 1
            /\ Steps(p) )
          => /\ call'[p].pc = "done"
             /\ call'[p].ret.kind = "message"
             /\ call'[p].ret.message = call[p].resp.outbox[1].params
             /\ call'[p].calls = <<"pushMessage">>]_vars

\* a closure was forwarded
C11_Witness ==
    \E p \in Procs :
        /\ call[p].pc = "done"
        /\ call[p].op = "inputStateChannelMessage"
        /\ call[p].calls = <<"pushMessage">>
        /\ call[p].ret.kind = "message"
        /\ call[p].ret.message.sender = "indexer"
        /\ Len(call[p].ret.message.signedStates) = 1
        /\ wallet[call[p].channelId].status = "closed"

----------------------------------------------------------------------------
(* C12 *)

\* C12: while a channel result is cached for a channel id, every resolution of
\* that id (by provideAttestation, declineQuery or getExistingChannelId)
\* returns the cached result, leaves the cache as it is and does not invoke
\* wallet.getState
C12_CachedReadsAreIdempotent ==
    [][\A p \in Procs :
          ( /\ Starts(p)
            /\ call'[p].op \in {"nextState", "getExistingChannelId"}
            /\ cachedState[call'[p].channelId] # NoResult )
          => /\ call'[p].pc = "resolved"
             /\ call'[p].channelResult = cachedState[call'[p].channelId]
             /\ call'[p].calls = <<>>
             /\ cachedState' = cachedState]_vars

\* two resolutions of one cached entry, both holding it, neither having asked
\* the wallet
C12_Witness ==
    \E p \in Procs, q \in Procs :
        /\ p # q
        /\ call[p].pc = "resolved" /\ call[q].pc = "resolved"
        /\ call[p].channelId = call[q].channelId
        /\ call[p].calls = <<>> /\ call[q].calls = <<>>
        /\ call[p].channelResult = cachedState[call[p].channelId]
        /\ call[q].channelResult = call[p].channelResult
        /\ call[p].channelResult # NoResult

----------------------------------------------------------------------------
(* C13 *)

\* C13: when pushMessage answered with no channel result, the call ends there
\* with NoChannelUpdate, every cache entry is as before and no wallet
\* operation but pushMessage was invoked
C13_NoChannelUpdate ==
    [][\A p \in Procs :
          ( /\ call[p].pc = "afterPush"
            /\ call[p].resp.channelResult = NoResult
            /\ Steps(p) )
          => /\ call'[p].pc = "done"
             /\ call'[p].ret = Thrown("NoChannelUpdate")
             /\ call'[p].calls = <<"pushMessage">>
             /\ cachedState' = cachedState]_vars

\* a message without effect on a known channel ended with NoChannelUpdate
C13_Witness ==
    \E p \in Procs :
        /\ call[p].pc = "done"
        /\ call[p].ret.error = "NoChannelUpdate"
        /\ call[p].calls = <<"pushMessage">>
        /\ cachedState[call[p].channelId] # NoResult

----------------------------------------------------------------------------
(* C14 *)

\* the result is a channel of zero total value with a single allocation
ZeroValue(channelResult) ==
    /\ Len(channelResult.allocations) = 1
    /\ totalInChannel(channelResult) = 0

\* C14: for a zero-value channel, an inbound proposal (proposed, empty outbox)
\* takes the join branch, and a join that ends without error returns a message
\* of two signed states; an inbound running acknowledgement (running, empty
\* outbox) ends the call at once with no message and with pushMessage as the
\* only wallet operation (no joinChannel, updateChannelFunding, updateChannel)
C14_ProposalThenAcknowledgement ==
    [][\A p \in Procs :
          /\ ( /\ call[p].pc = "afterPush"
               /\ ZeroValue(call[p].resp.channelResult)
               /\ call[p].resp.channelResult.status = "proposed"
               /\ Len(call[p].resp.outbox) = 0
               /\ Steps(p) )
             => /\ call'[p].pc = "joinChannel"
                /\ call'[p].calls = <<"pushMessage", "joinChannel">>
          /\ ( /\ call[p].pc \in {"afterJoin", "afterFunding"}
               /\ ZeroValue(call[p].channelResult)
               /\ Ends(p)
               /\ call'[p].ret.kind # "error" )
             => /\ call'[p].ret.kind = "message"
                /\ Len(call'[p].ret.message.signedStates) = 2
          /\ ( /\ call[p].pc = "afterPush"
               /\ ZeroValue(call[p].resp.channelResult)
               /\ call[p].resp.channelResult.status = "running"
               /\ Len(call[p].resp.outbox) = 0
               /\ Steps(p) )
             => /\ call'[p].pc = "done"
                /\ call'[p].ret = ReturnedNothing
                /\ call'[p].calls = <<"pushMessage">>]_vars

\* the acknowledgement of a joined zero-value channel was taken without reply
C14_Witness ==
    \E p \in Procs :
        /\ call[p].pc = "done"
        /\ call[p].op = "inputStateChannelMessage"
        /\ call[p].ret = ReturnedNothing
        /\ call[p].calls = <<"pushMessage">>
        /\ cachedState[call[p].channelId].status = "running"
        /\ cachedState[call[p].channelId].turnNum = PostFundTurn
        /\ ZeroValue(cachedState[call[p].channelId])

----------------------------------------------------------------------------
(* C15 *)

\* C15: the step that takes pushMessage's answer with a channel result writes
\* that result to the cache entry of the result's channel id, whatever branch
\* follows; no later step of the call (joinChannel's or updateChannelFunding's
\* answer, an error) writes the cache
C15_CacheWrittenBeforeBranch ==
    [][\A p \in Procs :
          ( /\ call[p].op = "inputStateChannelMessage"
            /\ InFlight(p)
            /\ Steps(p) )
          => IF /\ call[p].pc = "afterPush"
                /\ call[p].resp.channelResult # NoResult
             THEN cachedState' =
                    [cachedState EXCEPT
                        ![call[p].resp.channelResult.channelId] =
                            call[p].resp.channelResult]
             ELSE cachedState' = cachedState]_vars

\* a call failed in its funding step with the pushed result in the cache
C15_Witness ==
    \E p \in Procs :
        /\ call[p].pc = "done"
        /\ call[p].op = "inputStateChannelMessage"
        /\ call[p].ret.kind = "error"
        /\ call[p].calls = <<"pushMessage", "joinChannel", "updateChannelFunding">>
        /\ cachedState[call[p].channelId].status = "proposed"
        /\ cachedState[call[p].channelId].turnNum = PreFundTurn

----------------------------------------------------------------------------
(* C16 *)

\* C16: when joinChannel answered with an outbox of a length other than 1 or
\* 2, the call ends there with MalformedJoinOutbox: updateChannelFunding is not
\* invoked and no message is returned
C16_MalformedJoinOutbox ==
    [][\A p \in Procs :
          ( /\ call[p].pc = "afterJoin"
            /\ call[p].resp.ok
            /\ Len(call[p].resp.outbox) \notin {1, 2}
            /\ Steps(p) )
          => /\ call'[p].pc = "done"
             /\ call'[p].ret = Thrown("MalformedJoinOutbox")
             /\ call'[p].calls = <<"pushMessage", "joinChannel">>]_vars

\* a join ended with MalformedJoinOutbox
C16_Witness ==
    \E p \in Procs :
        /\ call[p].pc = "done"
        /\ call[p].ret.error = "MalformedJoinOutbox"
        /\ call[p].calls = <<"pushMessage", "joinChannel">>

----------------------------------------------------------------------------
(* C17 *)

\* C17: when updateChannelFunding answered with an empty outbox, the call ends
\* with UndefinedPostFundState and returns no message
C17_UndefinedPostFundState ==
    [][\A p \in Procs :
          ( /\ call[p].pc = "afterFunding"
            /\ call[p].resp.ok
            /\ Len(call[p].resp.outbox) = 0
            /\ Steps(p) )
          => /\ call'[p].pc = "done"
             /\ call'[p].ret = Thrown("UndefinedPostFundState")]_vars

----------------------------------------------------------------------------
(* C18 *)

\* C18: with two channels served in parallel, every step of a call that
\* concerns channel a leaves the cache entry (and the wallet's channel) of the
\* other channel as it is; what the call resolves is a's cache entry and
\* nothing else, its wallet requests name a, and what it returns (message or
\* channel id) is about a
C18_DistinctChannelsIndependent ==
    [][\A p \in Procs :
          Steps(p) =>
            LET a == call'[p].channelId IN
            /\ \A b \in DOMAIN cachedState :
                  b # a => /\ cachedState'[b] = cachedState[b]
                           /\ wallet'[b] = wallet[b]
            /\ (Starts(p) /\ call'[p].op # "inputStateChannelMessage")
               => IF cachedState[a] # NoResult
                  THEN /\ call'[p].pc = "resolved"
                       /\ call'[p].channelResult = cachedState[a]
                  ELSE /\ call'[p].pc = "getState"
                       /\ call'[p].request.channelId = a
            /\ call'[p].request # NoRequest => call'[p].request.channelId = a
            /\ call'[p].channelResult # NoResult
               => call'[p].channelResult.channelId = a
            /\ call'[p].ret.kind = "message"
               => \A i \in 1..Len(call'[p].ret.message.signedStates) :
                     call'[p].ret.message.signedStates[i].channelId = a
            /\ call'[p].ret.kind = "channelId" => call'[p].ret.channelId = a]_vars

\* a settlement call on one channel returned its message while a call on the
\* other channel, cached in another status, is in flight
C18_Witness ==
    \E p \in Procs, q \in Procs :
        /\ call[p].pc = "done"
        /\ call[p].op = "nextState"
        /\ call[p].ret.kind = "message"
        /\ InFlight(q)
        /\ call[q].channelId # call[p].channelId
        /\ cachedState[call[p].channelId].status = "running"
        /\ cachedState[call[q].channelId].status = "proposed"

----------------------------------------------------------------------------
(* C19 *)

\* C19: no step replaces a cached channel result by one with a lower turn
\* number
C19_CachedTurnNeverDecreases ==
    [][\A c \in Channels :
          (cachedState[c] # NoResult /\ cachedState'[c] # NoResult)
          => cachedState'[c].turnNum >= cachedState[c].turnNum]_vars

----------------------------------------------------------------------------
(* C20 *)

\* C20: when updateChannel rejected, the call ends there with the wallet's
\* error and no message, having invoked updateChannel once; neither that step
\* nor any step of the call since its resolution writes the cache
C20_UpdateFailurePropagates ==
    [][\A p \in Procs :
          /\ ( /\ call[p].pc = "afterUpdate"
               /\ ~call[p].resp.ok
               /\ Steps(p) )
             => /\ call'[p].pc = "done"
                /\ call'[p].ret = Thrown("WalletError")
                /\ Count(call'[p].calls, "updateChannel") = 1
                /\ cachedState' = cachedState
          /\ ( /\ call[p].op = "nextState"
               /\ call[p].pc \in {"resolved", "updateChannel"}
               /\ Steps(p) )
             => cachedState' = cachedState]_vars

\* a settlement call ended with the wallet's error, the cache entry still the
\* one it resolved
C20_Witness ==
    \E p \in Procs :
        /\ call[p].pc = "done"
        /\ call[p].op = "nextState"
        /\ call[p].ret = Thrown("WalletError")
        /\ call[p].calls = <<"updateChannel">>
        /\ cachedState[call[p].channelId].status = "running"
        /\ \A q \in Procs : ~InFlight(q)

====
